---- MODULE Spec2Model ----
(***************************************************************************)
(* Digest-auth negotiation of diqwest: send_with_digest_auth and           *)
(* try_digest_auth of lib.rs (async) and blocking.rs (blocking), with the  *)
(* challenge resolution of common.rs (get_answer, calculate_answer,        *)
(* parse_digest_auth_header, clone_request_builder).                       *)
(*                                                                         *)
(* A call suspends (async) or blocks (blocking) only in send(); every      *)
(* action is the code between two such points.  The transport answers a    *)
(* send with a response or with a transport error, chosen by the           *)
(* environment.                                                            *)
(***************************************************************************)
EXTENDS Integers, Sequences, FiniteSets, TLC

VARIABLES
  request_builder,   \* the caller's RequestBuilder (&self), shared by all calls
  flavor,            \* per call: "async" (lib.rs) or "blocking" (blocking.rs)
  credentials,       \* per call: the username and password arguments
  pc,                \* per call: position in send_with_digest_auth
  first_response,    \* per call: the local first_response
  context,           \* per call: the AuthContext handed to the digest library
  answer,            \* per call: the AuthorizationHeader get_answer produced
  transmissions,     \* per call: the requests handed to the transport, in order
  duplications,      \* per call: number of try_clone calls on request_builder
  received,          \* per call: what the transport returned for each send, in order
  result             \* per call: the value send_with_digest_auth returned

vars == <<request_builder, flavor, credentials, pc, first_response, context,
          answer, transmissions, duplications, received, result>>

----------------------------------------------------------------------------
(* Bounds *)

\* upper bound on the number of www-authenticate values of one response
MaxHeaderValues == 2

----------------------------------------------------------------------------
(* Values *)

Calls == {"call1", "call2"}

None == [some |-> FALSE]
Some(v) == [some |-> TRUE, value |-> v]

UNAUTHORIZED == 401
StatusCodes == {200, UNAUTHORIZED}

\* Error variants (error.rs, and the two variants common.rs imports)
ReqwestError == "ReqwestError"
DigestAuthError == "DigestAuthError"
ToStrError == "ToStrError"
RequestBuilderNotCloneable == "RequestBuilderNotCloneable"
AuthHeaderMissing == "AuthHeaderMissing"

\* www-authenticate header values a server may send
BinaryValue == [text |-> FALSE, scheme |-> "", realm |-> "", nonce |-> "", qop |-> {}]
BasicValue == [text |-> TRUE, scheme |-> "Basic", realm |-> "basic", nonce |-> "", qop |-> {}]
NoNonceValue == [text |-> TRUE, scheme |-> "Digest", realm |-> "testrealm", nonce |-> "", qop |-> {"auth"}]
DigestValue == [text |-> TRUE, scheme |-> "Digest", realm |-> "testrealm", nonce |-> "dcd98b", qop |-> {"auth", "auth-int"}]
AuthIntValue == [text |-> TRUE, scheme |-> "Digest", realm |-> "otherrealm", nonce |-> "0a4f11", qop |-> {"auth-int"}]

HeaderValues == {BinaryValue, BasicValue, NoNonceValue, DigestValue, AuthIntValue}

HeaderValueLists == UNION {[1..n -> HeaderValues] : n \in 0..MaxHeaderValues}

\* a Response: status, the www-authenticate values of its HeaderMap, and the
\* transmission it answers (what tells two responses of one call apart)
Responses(n) == [status : StatusCodes, www_authenticate : HeaderValueLists, seq : {n}]

NoResponse == [status |-> 0, www_authenticate |-> <<>>, seq |-> 0]

\* what send() returns: Ok(response) or Err(reqwest::Error)
SendOutcomes(n) == {[ok |-> TRUE, response |-> r] : r \in Responses(n)}
                   \cup {[ok |-> FALSE, response |-> NoResponse]}

\* Result<Response>
Pending == [tag |-> "Pending", response |-> NoResponse, error |-> ""]
Ok(r) == [tag |-> "Ok", response |-> r, error |-> ""]
Err(e) == [tag |-> "Err", response |-> NoResponse, error |-> e]

\* request URLs
Url(scheme, host, port, path, query, fragment) ==
  [scheme |-> scheme, host |-> host, port |-> port, path |-> path,
   query |-> query, fragment |-> fragment]

Urls == {Url("http", "a.test", "", "/test", "", ""),
         Url("https", "a.test", "", "/test", "", ""),
         Url("http", "b.test", "8080", "/test", "", ""),
         Url("http", "a.test", "", "/test", "k=v", ""),
         Url("http", "a.test", "", "/test", "", "top"),
         Url("https", "b.test", "8080", "/test", "k=v", "top")}

\* request bodies: none, in-memory bytes, or a single-use stream
NoBody == [kind |-> "none", bytes |-> <<>>]
BytesBody == [kind |-> "bytes", bytes |-> <<"b">>]
StreamBody == [kind |-> "stream", bytes |-> <<>>]

NoHeaders == <<>>

\* the RequestBuilders a caller may hold; valid = FALSE is a builder that
\* carries a construction error instead of a request
RequestBuilders ==
  [method : {"GET"}, url : Urls, body : {NoBody}, headers : {NoHeaders}, valid : {TRUE}]
  \cup [method : {"POST"}, url : Urls, body : {BytesBody}, headers : {NoHeaders}, valid : {TRUE}]
  \cup [method : {"POST"}, url : {Url("http", "a.test", "", "/test", "", "")},
        body : {StreamBody}, headers : {NoHeaders}, valid : {TRUE}]
  \cup [method : {"GET"}, url : {Url("http", "a.test", "", "/test", "", "")},
        body : {NoBody}, headers : {NoHeaders}, valid : {FALSE}]

Credentials == {[username |-> "username", password |-> "password"],
                [username |-> "Mufasa", password |-> "Circle Of Life"]}

\* client nonces the digest library may draw
CNonces == {"c1", "c2"}

NoContext == [username |-> "", password |-> "", uri |-> <<>>, body |-> None, method |-> ""]

NoAnswer == [realm |-> "", nonce |-> "", uri |-> <<>>, username |-> "", qop |-> "",
             cnonce |-> "", nc |-> 0,
             response |-> [username |-> "", realm |-> "", password |-> "", nonce |-> "",
                           nc |-> 0, cnonce |-> "", qop |-> "", method |-> "",
                           uri |-> <<>>, body |-> None]]

NoRequest == [method |-> "", url |-> Url("", "", "", "", "", ""), body |-> NoBody,
              headers |-> NoHeaders]

\* a header the caller has put on the builder before the call (a header value
\* is a pair of its scheme or text and its parameters)
AcceptHeaders == << <<"accept", <<"*/*", NoAnswer>> >> >>

\* the builders of RequestBuilders and one that already carries a header
CallerBuilders ==
  RequestBuilders
  \cup [method : {"GET"}, url : {Url("http", "a.test", "", "/test", "k=v", "")},
        body : {NoBody}, headers : {AcceptHeaders}, valid : {TRUE}]

----------------------------------------------------------------------------
(* The url crate: serialization of a Url and Position::AfterPort *)

\* the serialization of a Url, one token per syntactic part
Serialization(url) ==
  <<url.scheme, "://", url.host>>
  \o (IF url.port = "" THEN <<>> ELSE <<":", url.port>>)
  \o <<url.path>>
  \o (IF url.query = "" THEN <<>> ELSE <<"?", url.query>>)
  \o (IF url.fragment = "" THEN <<>> ELSE <<"#", url.fragment>>)

\* Position::AfterPort as an index into the serialization
AfterPort(url) == IF url.port = "" THEN 3 ELSE 5

\* &url[Position::AfterPort..]
SliceFromAfterPort(url) ==
  SubSeq(Serialization(url), AfterPort(url) + 1, Len(Serialization(url)))

----------------------------------------------------------------------------
(* reqwest: RequestBuilder and HeaderMap operations the crate calls *)

\* RequestBuilder::try_clone: None when the builder holds an error or the
\* body is a stream
try_clone(rb) ==
  IF rb.valid /\ rb.body.kind # "stream" THEN Some(rb) ELSE None

\* RequestBuilder::build
build(rb) ==
  IF rb.valid
  THEN [tag |-> "Ok", error |-> "",
        value |-> [method |-> rb.method, url |-> rb.url, body |-> rb.body,
                   headers |-> rb.headers]]
  ELSE [tag |-> "Err", error |-> ReqwestError, value |-> NoRequest]

\* Body::as_bytes
as_bytes(body) == IF body.kind = "bytes" THEN Some(body.bytes) ELSE None

\* request.body().and_then(|b| b.as_bytes())
body_bytes(request) ==
  IF request.body.kind = "none" THEN None ELSE as_bytes(request.body)

\* faulty variant of header: the new header replaces the ones already set
header_replacing(rb, name, value) ==
  [rb EXCEPT !.headers = <<<<name, value>>>>]

\* RequestBuilder::header(AUTHORIZATION, value)
header(rb, name, value) ==
  [rb EXCEPT !.headers = Append(rb.headers, <<name, value>>)]

\* faulty variant of get: the last value stored under the name
get_last(www_authenticate) ==
  IF Len(www_authenticate) = 0
  THEN None
  ELSE Some(www_authenticate[Len(www_authenticate)])

\* HeaderMap::get: the first value stored under the name, if any
get(www_authenticate) ==
  IF Len(www_authenticate) = 0 THEN None ELSE Some(Head(www_authenticate))

\* HeaderValue::to_str
to_str(value) ==
  IF value.text THEN [tag |-> "Ok", error |-> ""] ELSE [tag |-> "Err", error |-> ToStrError]

----------------------------------------------------------------------------
(* digest_auth: parse, respond and to_header_string *)

\* digest_auth::parse: the scheme must be Digest, realm and nonce are required
parse(value) ==
  IF value.scheme = "Digest" /\ value.realm # "" /\ value.nonce # ""
  THEN [tag |-> "Ok", error |-> ""]
  ELSE [tag |-> "Err", error |-> DigestAuthError]

\* the qop WwwAuthenticateHeader::respond selects: auth-int needs a body
SelectQop(prompt, ctx) ==
  IF prompt.qop = {} THEN Some("")
  ELSE IF "auth-int" \in prompt.qop /\ ctx.body.some THEN Some("auth-int")
  ELSE IF "auth" \in prompt.qop THEN Some("auth")
  ELSE None

\* faulty variant of AuthorizationHeader: the client nonce is sent in the place
\* of the server's nonce
AuthorizationHeader_nonce_mixup(prompt, ctx, qop, cnonce, nc) ==
  [realm |-> prompt.realm, nonce |-> cnonce, uri |-> ctx.uri,
   username |-> ctx.username, qop |-> qop, cnonce |-> cnonce, nc |-> nc,
   response |-> [username |-> ctx.username, realm |-> prompt.realm,
                 password |-> ctx.password, nonce |-> cnonce,
                 nc |-> nc, cnonce |-> cnonce, qop |-> qop,
                 method |-> ctx.method, uri |-> ctx.uri,
                 body |-> IF qop = "auth-int" THEN ctx.body ELSE None]]

\* the AuthorizationHeader respond builds for the selected qop; client nonce
\* and nonce count are present only with a qop
AuthorizationHeader(prompt, ctx, qop, cnonce, nc) ==
  [realm |-> prompt.realm, nonce |-> prompt.nonce, uri |-> ctx.uri,
   username |-> ctx.username, qop |-> qop, cnonce |-> cnonce, nc |-> nc,
   response |-> [username |-> ctx.username, realm |-> prompt.realm,
                 password |-> ctx.password, nonce |-> prompt.nonce,
                 nc |-> nc, cnonce |-> cnonce, qop |-> qop,
                 method |-> ctx.method, uri |-> ctx.uri,
                 body |-> IF qop = "auth-int" THEN ctx.body ELSE None]]

\* WwwAuthenticateHeader::respond with the client nonce it draws
respond(prompt, ctx, cnonce) ==
  IF ~SelectQop(prompt, ctx).some
  THEN [tag |-> "Err", error |-> DigestAuthError, value |-> NoAnswer]
  ELSE IF SelectQop(prompt, ctx).value = ""
  THEN [tag |-> "Ok", error |-> "",
        value |-> AuthorizationHeader(prompt, ctx, "", "", 0)]
  ELSE [tag |-> "Ok", error |-> "",
        value |-> AuthorizationHeader(prompt, ctx, SelectQop(prompt, ctx).value, cnonce, 1)]

\* AuthorizationHeader::to_header_string
to_header_string(a) == <<"Digest", a>>

----------------------------------------------------------------------------
(* common.rs *)

\* faulty variant of clone_request_builder: a failed try_clone falls back to the
\* builder itself instead of the error
clone_request_builder_unchecked(rb) ==
  [tag |-> "Ok", error |-> "", value |-> rb]

\* clone_request_builder: try_clone().ok_or(RequestBuilderNotCloneable)
clone_request_builder(rb) ==
  IF try_clone(rb).some
  THEN [tag |-> "Ok", error |-> "", value |-> try_clone(rb).value]
  ELSE [tag |-> "Err", error |-> RequestBuilderNotCloneable, value |-> rb]

\* CloneRequestBuilder::refresh, the duplication lib.rs and blocking.rs call
refresh(rb) == clone_request_builder(rb)

\* faulty variant of AuthContext: username and password arguments exchanged
AuthContext_swapped(username, password, path, body, method) ==
  [username |-> password, password |-> username, uri |-> path, body |-> body,
   method |-> method]

\* the AuthContext parse_digest_auth_header builds
AuthContext(username, password, path, body, method) ==
  [username |-> username, password |-> password, uri |-> path, body |-> body,
   method |-> method]

\* Result<AuthorizationHeader> of the resolver, with the AuthContext it built
Resolved(r, ctx) == [tag |-> r.tag, error |-> r.error, value |-> r.value, context |-> ctx]

Unresolved(e, ctx) == [tag |-> "Err", error |-> e, value |-> NoAnswer, context |-> ctx]

\* faulty variant of parse_digest_auth_header: a value that is not text counts
\* as a missing header
parse_digest_auth_header_lenient(www_authenticate, path, method, body, username, password, cnonce) ==
  IF ~get(www_authenticate).some
  THEN Unresolved(AuthHeaderMissing, NoContext)
  ELSE IF to_str(get(www_authenticate).value).tag = "Err"
  THEN Unresolved(AuthHeaderMissing, NoContext)
  ELSE IF parse(get(www_authenticate).value).tag = "Err"
  THEN Unresolved(DigestAuthError, AuthContext(username, password, path, body, method))
  ELSE Resolved(respond(get(www_authenticate).value,
                        AuthContext(username, password, path, body, method), cnonce),
                AuthContext(username, password, path, body, method))

\* parse_digest_auth_header: header lookup, to_str, AuthContext, parse, respond
parse_digest_auth_header(www_authenticate, path, method, body, username, password, cnonce) ==
  IF ~get(www_authenticate).some
  THEN Unresolved(AuthHeaderMissing, NoContext)
  ELSE IF to_str(get(www_authenticate).value).tag = "Err"
  THEN Unresolved(ToStrError, NoContext)
  ELSE IF parse(get(www_authenticate).value).tag = "Err"
  THEN Unresolved(DigestAuthError, AuthContext(username, password, path, body, method))
  ELSE Resolved(respond(get(www_authenticate).value,
                        AuthContext(username, password, path, body, method), cnonce),
                AuthContext(username, password, path, body, method))

\* calculate_answer, from the built request on: path, method and body are
\* taken from it and handed to parse_digest_auth_header
calculate_answer_for(request, www_authenticate, username, password, cnonce) ==
  parse_digest_auth_header(www_authenticate, SliceFromAfterPort(request.url),
                           request.method, body_bytes(request),
                           username, password, cnonce)

\* calculate_answer: clone_request_builder(request_builder)?.build()?, then
\* the resolution for the built request
calculate_answer(rb, www_authenticate, username, password, cnonce) ==
  IF clone_request_builder(rb).tag = "Err"
  THEN Unresolved(clone_request_builder(rb).error, NoContext)
  ELSE IF build(clone_request_builder(rb).value).tag = "Err"
  THEN Unresolved(build(clone_request_builder(rb).value).error, NoContext)
  ELSE calculate_answer_for(build(clone_request_builder(rb).value).value,
                            www_authenticate, username, password, cnonce)

\* faulty variant of match_answer: AuthHeaderMissing is propagated like any error
match_answer_missing_is_error(a) ==
  IF a.tag = "Ok"
  THEN [tag |-> "Ok", error |-> "", some |-> TRUE, value |-> a.value, context |-> a.context]
  ELSE [tag |-> "Err", error |-> a.error, some |-> FALSE, value |-> NoAnswer,
        context |-> a.context]

\* faulty variant of match_answer: every error is turned into Ok(None)
match_answer_swallows_errors(a) ==
  IF a.tag = "Ok"
  THEN [tag |-> "Ok", error |-> "", some |-> TRUE, value |-> a.value, context |-> a.context]
  ELSE [tag |-> "Ok", error |-> "", some |-> FALSE, value |-> NoAnswer,
        context |-> a.context]

\* the match of get_answer: Ok(answer) => Ok(Some(answer)),
\* Err(AuthHeaderMissing) => Ok(None), Err(error) => Err(error)
match_answer(a) ==
  IF a.tag = "Ok"
  THEN [tag |-> "Ok", error |-> "", some |-> TRUE, value |-> a.value, context |-> a.context]
  ELSE IF a.error = AuthHeaderMissing
  THEN [tag |-> "Ok", error |-> "", some |-> FALSE, value |-> NoAnswer,
        context |-> a.context]
  ELSE [tag |-> "Err", error |-> a.error, some |-> FALSE, value |-> NoAnswer,
        context |-> a.context]

\* get_answer: calculate_answer, then the match on its result
get_answer(rb, www_authenticate, username, password, cnonce) ==
  match_answer(calculate_answer(rb, www_authenticate, username, password, cnonce))

----------------------------------------------------------------------------
(* What a step of a call decides: return a result, or send a request and    *)
(* wait for the transport.  clones counts the try_clone calls of the step.  *)

Return(res, ans, ctx, clones) ==
  [kind |-> "return", result |-> res, request |-> NoRequest, answer |-> ans,
   context |-> ctx, clones |-> clones]

Send(req, ans, ctx, clones) ==
  [kind |-> "send", result |-> Pending, request |-> req, answer |-> ans,
   context |-> ctx, clones |-> clones]

\* the Request the transport receives from RequestBuilder::send
SentRequest(rb) == build(rb).value

----------------------------------------------------------------------------
(* lib.rs: the async negotiator *)

\* faulty variant of retry_or_return: after an error of get_answer the request
\* is sent again without a credential
retry_or_return_resend_on_error(rb, first, got) ==
  IF got.tag = "Err"
  THEN Send(SentRequest(refresh(rb).value), None, got.context, 2)
  ELSE IF ~got.some
  THEN Return(Ok(first), None, got.context, 1)
  ELSE IF refresh(rb).tag = "Err"
  THEN Return(Err(refresh(rb).error), Some(got.value), got.context, 2)
  ELSE Send(SentRequest(header(refresh(rb).value, "authorization",
                               to_header_string(got.value))),
            Some(got.value), got.context, 2)

\* try_digest_auth with the result of get_answer (one try_clone), up to its
\* send().await: the ? on the result, the retry with the Authorization header
\* (a second try_clone) for Some(answer), the first response for None
retry_or_return(rb, first, got) ==
  IF got.tag = "Err"
  THEN Return(Err(got.error), None, got.context, 1)
  ELSE IF ~got.some
  THEN Return(Ok(first), None, got.context, 1)
  ELSE IF refresh(rb).tag = "Err"
  THEN Return(Err(refresh(rb).error), Some(got.value), got.context, 2)
  ELSE Send(SentRequest(header(refresh(rb).value, "authorization",
                               to_header_string(got.value))),
            Some(got.value), got.context, 2)

\* try_digest_auth up to its send().await
try_digest_auth(rb, first, username, password, cnonce) ==
  retry_or_return(rb, first,
                  get_answer(rb, first.www_authenticate, username, password, cnonce))

\* faulty variant of match_first_response: the duplicate for inspection is made
\* before the status is looked at
match_first_response_eager_clone(rb, outcome, username, password, cnonce) ==
  IF ~outcome.ok
  THEN Return(Err(ReqwestError), None, NoContext, 0)
  ELSE IF outcome.response.status = UNAUTHORIZED
  THEN try_digest_auth(rb, outcome.response, username, password, cnonce)
  ELSE Return(Ok(outcome.response), None, NoContext, 1)

\* faulty variant of match_first_response: the digest flow runs for every status
match_first_response_any_status(rb, outcome, username, password, cnonce) ==
  IF ~outcome.ok
  THEN Return(Err(ReqwestError), None, NoContext, 0)
  ELSE try_digest_auth(rb, outcome.response, username, password, cnonce)

\* send_with_digest_auth after its first send().await: the ? on the send
\* result and the match on the status
match_first_response(rb, outcome, username, password, cnonce) ==
  IF ~outcome.ok
  THEN Return(Err(ReqwestError), None, NoContext, 0)
  ELSE IF outcome.response.status = UNAUTHORIZED
  THEN try_digest_auth(rb, outcome.response, username, password, cnonce)
  ELSE Return(Ok(outcome.response), None, NoContext, 0)

\* faulty variant of second_send_result: a second 401 is turned into an error
second_send_result_rejects_401(outcome) ==
  IF outcome.ok /\ outcome.response.status # UNAUTHORIZED
  THEN Ok(outcome.response) ELSE Err(ReqwestError)

\* try_digest_auth after its send().await: Ok(response) or the ? on the error
second_send_result(outcome) ==
  IF outcome.ok THEN Ok(outcome.response) ELSE Err(ReqwestError)

----------------------------------------------------------------------------
(* blocking.rs: the blocking negotiator *)

\* faulty variant of blocking_retry_or_return: an error of get_answer is
\* answered with the first response
blocking_retry_or_return_lenient(rb, first, got) ==
  IF got.tag = "Err" \/ ~got.some
  THEN Return(Ok(first), None, got.context, 1)
  ELSE IF refresh(rb).tag = "Err"
  THEN Return(Err(refresh(rb).error), Some(got.value), got.context, 2)
  ELSE Send(SentRequest(header(refresh(rb).value, "authorization",
                               to_header_string(got.value))),
            Some(got.value), got.context, 2)

\* try_digest_auth with the result of get_answer, up to its blocking send()
blocking_retry_or_return(rb, first, got) ==
  IF got.tag = "Err"
  THEN Return(Err(got.error), None, got.context, 1)
  ELSE IF ~got.some
  THEN Return(Ok(first), None, got.context, 1)
  ELSE IF refresh(rb).tag = "Err"
  THEN Return(Err(refresh(rb).error), Some(got.value), got.context, 2)
  ELSE Send(SentRequest(header(refresh(rb).value, "authorization",
                               to_header_string(got.value))),
            Some(got.value), got.context, 2)

\* try_digest_auth up to its blocking send()
blocking_try_digest_auth(rb, first, username, password, cnonce) ==
  blocking_retry_or_return(rb, first,
                           get_answer(rb, first.www_authenticate, username, password,
                                      cnonce))

\* send_with_digest_auth after its first send(): the ? and the status match
blocking_match_first_response(rb, outcome, username, password, cnonce) ==
  IF ~outcome.ok
  THEN Return(Err(ReqwestError), None, NoContext, 0)
  ELSE IF outcome.response.status = UNAUTHORIZED
  THEN blocking_try_digest_auth(rb, outcome.response, username, password, cnonce)
  ELSE Return(Ok(outcome.response), None, NoContext, 0)

\* try_digest_auth after its second send(): Ok(response) or the ? on the error
blocking_second_send_result(outcome) ==
  IF outcome.ok THEN Ok(outcome.response) ELSE Err(ReqwestError)

----------------------------------------------------------------------------
(* Actions *)

\* faulty variant of Apply: the Authorization header is put on the caller's
\* builder itself before it is sent
Apply_in_place(c, step, outcome) ==
  /\ received' = [received EXCEPT ![c] = Append(@, outcome)]
  /\ first_response' = [first_response EXCEPT ![c] = outcome.response]
  /\ answer' = [answer EXCEPT ![c] = step.answer]
  /\ context' = [context EXCEPT ![c] = step.context]
  /\ duplications' = [duplications EXCEPT ![c] = @ + step.clones]
  /\ IF step.kind = "send"
     THEN /\ transmissions' = [transmissions EXCEPT ![c] = Append(@, step.request)]
          /\ pc' = [pc EXCEPT ![c] = "second_send"]
          /\ request_builder' = header(request_builder, "authorization",
                                       to_header_string(step.answer.value))
          /\ UNCHANGED result
     ELSE /\ result' = [result EXCEPT ![c] = step.result]
          /\ pc' = [pc EXCEPT ![c] = "done"]
          /\ UNCHANGED <<transmissions, request_builder>>
  /\ UNCHANGED <<flavor, credentials>>

\* the effect of a step on the state of call c
Apply(c, step, outcome) ==
  /\ received' = [received EXCEPT ![c] = Append(@, outcome)]
  /\ first_response' = [first_response EXCEPT ![c] = outcome.response]
  /\ answer' = [answer EXCEPT ![c] = step.answer]
  /\ context' = [context EXCEPT ![c] = step.context]
  /\ duplications' = [duplications EXCEPT ![c] = @ + step.clones]
  /\ IF step.kind = "send"
     THEN /\ transmissions' = [transmissions EXCEPT ![c] = Append(@, step.request)]
          /\ pc' = [pc EXCEPT ![c] = "second_send"]
          /\ UNCHANGED result
     ELSE /\ result' = [result EXCEPT ![c] = step.result]
          /\ pc' = [pc EXCEPT ![c] = "done"]
          /\ UNCHANGED transmissions
  /\ UNCHANGED <<request_builder, flavor, credentials>>

\* lib.rs send_with_digest_auth, to the first send().await: refresh()?.send()
send_with_digest_auth(c) ==
  /\ pc[c] = "start"
  /\ flavor[c] = "async"
  /\ duplications' = [duplications EXCEPT ![c] = @ + 1]
  /\ IF refresh(request_builder).tag = "Err"
     THEN /\ result' = [result EXCEPT ![c] = Err(refresh(request_builder).error)]
          /\ pc' = [pc EXCEPT ![c] = "done"]
          /\ UNCHANGED transmissions
     ELSE /\ transmissions' = [transmissions EXCEPT ![c] =
                                 Append(@, SentRequest(refresh(request_builder).value))]
          /\ pc' = [pc EXCEPT ![c] = "first_send"]
          /\ UNCHANGED result
  /\ UNCHANGED <<request_builder, flavor, credentials, first_response, context, answer,
                 received>>

\* faulty variant of first_send_completes: the username and password are kept
\* in one place for all calls, the ones of the first call
first_send_completes_shared_credentials(c) ==
  /\ pc[c] = "first_send"
  /\ flavor[c] = "async"
  /\ \E outcome \in SendOutcomes(1), cnonce \in CNonces :
       Apply(c, match_first_response(request_builder, outcome,
                                     credentials["call1"].username,
                                     credentials["call1"].password, cnonce),
             outcome)

\* lib.rs: the first send().await completes; the call runs on to its return
\* or to the send().await of try_digest_auth
first_send_completes(c) ==
  /\ pc[c] = "first_send"
  /\ flavor[c] = "async"
  /\ \E outcome \in SendOutcomes(1), cnonce \in CNonces :
       Apply(c, match_first_response(request_builder, outcome, credentials[c].username,
                                     credentials[c].password, cnonce),
             outcome)

\* faulty variant of second_send_completes: a second 401 starts the negotiation
\* over from the first send
second_send_completes_restarting(c) ==
  /\ pc[c] = "second_send"
  /\ flavor[c] = "async"
  /\ \E outcome \in SendOutcomes(2) :
       IF outcome.ok /\ outcome.response.status = UNAUTHORIZED
       THEN /\ pc' = [pc EXCEPT ![c] = "start"]
            /\ received' = [received EXCEPT ![c] = <<>>]
            /\ transmissions' = [transmissions EXCEPT ![c] = <<>>]
            /\ duplications' = [duplications EXCEPT ![c] = 0]
            /\ first_response' = [first_response EXCEPT ![c] = NoResponse]
            /\ answer' = [answer EXCEPT ![c] = None]
            /\ context' = [context EXCEPT ![c] = NoContext]
            /\ UNCHANGED result
       ELSE /\ received' = [received EXCEPT ![c] = Append(@, outcome)]
            /\ result' = [result EXCEPT ![c] = second_send_result(outcome)]
            /\ pc' = [pc EXCEPT ![c] = "done"]
            /\ UNCHANGED <<first_response, context, answer, transmissions, duplications>>
  /\ UNCHANGED <<request_builder, flavor, credentials>>

\* faulty variant of second_send_completes: a second 401 is answered by
\* sending the authorized request once more
second_send_completes_retrying(c) ==
  /\ pc[c] = "second_send"
  /\ flavor[c] = "async"
  /\ \E outcome \in SendOutcomes(2) :
       /\ received' = [received EXCEPT ![c] = Append(@, outcome)]
       /\ IF outcome.ok /\ outcome.response.status = UNAUTHORIZED
          THEN /\ transmissions' = [transmissions EXCEPT ![c] = Append(@, @[Len(@)])]
               /\ UNCHANGED <<result, pc>>
          ELSE /\ result' = [result EXCEPT ![c] = second_send_result(outcome)]
               /\ pc' = [pc EXCEPT ![c] = "done"]
               /\ UNCHANGED transmissions
  /\ UNCHANGED <<request_builder, flavor, credentials, first_response, context, answer,
                 duplications>>

\* lib.rs: the send().await of try_digest_auth completes; the call returns
second_send_completes(c) ==
  /\ pc[c] = "second_send"
  /\ flavor[c] = "async"
  /\ \E outcome \in SendOutcomes(2) :
       /\ received' = [received EXCEPT ![c] = Append(@, outcome)]
       /\ result' = [result EXCEPT ![c] = second_send_result(outcome)]
       /\ pc' = [pc EXCEPT ![c] = "done"]
  /\ UNCHANGED <<request_builder, flavor, credentials, first_response, context, answer,
                 transmissions, duplications>>

\* blocking.rs send_with_digest_auth, to the first send(): refresh()?.send()
blocking_send_with_digest_auth(c) ==
  /\ pc[c] = "start"
  /\ flavor[c] = "blocking"
  /\ duplications' = [duplications EXCEPT ![c] = @ + 1]
  /\ IF refresh(request_builder).tag = "Err"
     THEN /\ result' = [result EXCEPT ![c] = Err(refresh(request_builder).error)]
          /\ pc' = [pc EXCEPT ![c] = "done"]
          /\ UNCHANGED transmissions
     ELSE /\ transmissions' = [transmissions EXCEPT ![c] =
                                 Append(@, SentRequest(refresh(request_builder).value))]
          /\ pc' = [pc EXCEPT ![c] = "first_send"]
          /\ UNCHANGED result
  /\ UNCHANGED <<request_builder, flavor, credentials, first_response, context, answer,
                 received>>

\* blocking.rs: the first send() returns; the call runs on to its return or
\* to the send() of try_digest_auth
blocking_first_send_completes(c) ==
  /\ pc[c] = "first_send"
  /\ flavor[c] = "blocking"
  /\ \E outcome \in SendOutcomes(1), cnonce \in CNonces :
       Apply(c, blocking_match_first_response(request_builder, outcome,
                                              credentials[c].username,
                                              credentials[c].password, cnonce),
             outcome)

\* faulty variant of blocking_second_send_completes: a failed second send falls
\* back to the first response
blocking_second_send_completes_fallback(c) ==
  /\ pc[c] = "second_send"
  /\ flavor[c] = "blocking"
  /\ \E outcome \in SendOutcomes(2) :
       /\ received' = [received EXCEPT ![c] = Append(@, outcome)]
       /\ result' = [result EXCEPT ![c] = IF outcome.ok THEN Ok(outcome.response)
                                          ELSE Ok(first_response[c])]
       /\ pc' = [pc EXCEPT ![c] = "done"]
  /\ UNCHANGED <<request_builder, flavor, credentials, first_response, context, answer,
                 transmissions, duplications>>

\* blocking.rs: the send() of try_digest_auth returns; the call returns
blocking_second_send_completes(c) ==
  /\ pc[c] = "second_send"
  /\ flavor[c] = "blocking"
  /\ \E outcome \in SendOutcomes(2) :
       /\ received' = [received EXCEPT ![c] = Append(@, outcome)]
       /\ result' = [result EXCEPT ![c] = blocking_second_send_result(outcome)]
       /\ pc' = [pc EXCEPT ![c] = "done"]
  /\ UNCHANGED <<request_builder, flavor, credentials, first_response, context, answer,
                 transmissions, duplications>>

----------------------------------------------------------------------------
(* Specification: one call of send_with_digest_auth on a request builder *)

Flavors == {"async", "blocking"}

InitCalls(active) ==
  /\ request_builder \in CallerBuilders
  /\ flavor \in [Calls -> Flavors]
  /\ credentials \in [Calls -> Credentials]
  /\ \A c \in Calls \ active :
       flavor[c] = "async" /\ credentials[c].username = "username"
  /\ pc = [c \in Calls |-> IF c \in active THEN "start" ELSE "idle"]
  /\ first_response = [c \in Calls |-> NoResponse]
  /\ context = [c \in Calls |-> NoContext]
  /\ answer = [c \in Calls |-> None]
  /\ transmissions = [c \in Calls |-> <<>>]
  /\ duplications = [c \in Calls |-> 0]
  /\ received = [c \in Calls |-> <<>>]
  /\ result = [c \in Calls |-> Pending]

Init == InitCalls({"call1"})

Next ==
  \E c \in Calls :
    \/ send_with_digest_auth(c)
    \/ first_send_completes(c)
    \/ second_send_completes(c)
    \/ blocking_send_with_digest_auth(c)
    \/ blocking_first_send_completes(c)
    \/ blocking_second_send_completes(c)

Spec == Init /\ [][Next]_vars

----------------------------------------------------------------------------
(* Specification: two calls of send_with_digest_auth on one request builder,
   interleaved at their send points *)

\* the www-authenticate values a response carries while two calls run
MaxHeaderValuesTwo == 1

\* every response received so far carries at most MaxHeaderValuesTwo
\* www-authenticate values
FewHeaderValues ==
  \A c \in Calls :
    \A i \in 1..Len(received[c]) :
      Len(received[c][i].response.www_authenticate) <= MaxHeaderValuesTwo

\* the two calls are interchangeable: the first is an async one
InitTwo == InitCalls(Calls) /\ flavor["call1"] = "async"

NextTwo == Next /\ FewHeaderValues'

SpecTwo == InitTwo /\ [][NextTwo]_vars

----------------------------------------------------------------------------
(* Specification: one call whose sends all return *)

\* the steps of call c
CallStep(c) ==
  \/ send_with_digest_auth(c)
  \/ first_send_completes(c)
  \/ second_send_completes(c)
  \/ blocking_send_with_digest_auth(c)
  \/ blocking_first_send_completes(c)
  \/ blocking_second_send_completes(c)

\* a call that can take a step takes one: its code between sends runs, and
\* every send() returns with a response or an error
Fairness == \A c \in Calls : WF_vars(CallStep(c))

LiveSpec == Init /\ [][Next]_vars /\ Fairness

----------------------------------------------------------------------------
(* Vocabulary of the properties *)

Done(c) == pc[c] = "done"

\* the transport answered the n-th send of call c with a response
Answered(c, n) == Len(received[c]) >= n /\ received[c][n].ok

\* the transport failed the n-th send of call c
Failed(c, n) == Len(received[c]) >= n /\ ~received[c][n].ok

\* the response the transport returned for the n-th send of call c
ResponseTo(c, n) == received[c][n].response

\* the first response of call c is a 401
Challenged(c) == Answered(c, 1) /\ ResponseTo(c, 1).status = UNAUTHORIZED

\* a www-authenticate value that is text and a well-formed Digest challenge
ValidDigest(v) == v.text /\ v.scheme = "Digest" /\ v.realm # "" /\ v.nonce # ""

\* the Authorization values carried by a transmitted request
Authorization(request) ==
  {request.headers[i][2] : i \in {j \in 1..Len(request.headers) :
                                    request.headers[j][1] = "authorization"}}

\* path and query of a URL, nothing else
PathAndQuery(url) ==
  <<url.path>> \o (IF url.query = "" THEN <<>> ELSE <<"?", url.query>>)

----------------------------------------------------------------------------
(* Properties *)

\* C1: a call whose first transmission returns a status other than 401 returns
\* exactly that first response, and exactly one transmission has occurred.
C1_NonUnauthorizedPassThrough ==
  \A c \in Calls :
    (Answered(c, 1) /\ ResponseTo(c, 1).status # UNAUTHORIZED)
      => /\ Done(c)
         /\ result[c] = Ok(ResponseTo(c, 1))
         /\ Len(transmissions[c]) = 1

C1_Witness ==
  \E c \in Calls :
    /\ Done(c)
    /\ Answered(c, 1)
    /\ ResponseTo(c, 1).status = 200
    /\ ResponseTo(c, 1).www_authenticate = <<DigestValue>>
    /\ result[c] = Ok(ResponseTo(c, 1))

\* C2: a call whose first transmission returns 401 without a www-authenticate
\* header returns exactly that 401 response, not an error, after exactly one
\* transmission.
C2_MissingHeaderPassThrough ==
  \A c \in Calls :
    (Challenged(c) /\ ResponseTo(c, 1).www_authenticate = <<>>)
      => /\ Done(c)
         /\ result[c] = Ok(ResponseTo(c, 1))
         /\ result[c].response.status = UNAUTHORIZED
         /\ Len(transmissions[c]) = 1

C2_Witness ==
  \E c \in Calls :
    /\ Done(c)
    /\ Challenged(c)
    /\ ResponseTo(c, 1).www_authenticate = <<>>
    /\ result[c].tag = "Ok"

\* the Authorization value the resolver computes for call c from the first
\* www-authenticate value of its first response, the request's method, path
\* and body and the call's username and password, with client nonce cnonce
ResolvedFor(c, cnonce) ==
  respond(Head(ResponseTo(c, 1).www_authenticate),
          [username |-> credentials[c].username, password |-> credentials[c].password,
           uri |-> SliceFromAfterPort(request_builder.url),
           body |-> as_bytes(request_builder.body),
           method |-> request_builder.method],
          cnonce)

\* the first response of call c is a 401 whose www-authenticate value is a
\* syntactically valid Digest challenge
ValidlyChallenged(c) ==
  /\ Challenged(c)
  /\ ResponseTo(c, 1).www_authenticate # <<>>
  /\ ValidDigest(Head(ResponseTo(c, 1).www_authenticate))

\* the second transmission of call c carries exactly the Authorization value
\* the resolver computes
CarriesResolved(c) ==
  /\ Len(transmissions[c]) = 2
  /\ \E a \in Authorization(transmissions[c][2]) :
       /\ Authorization(transmissions[c][2]) = {a}
       /\ a[1] = "Digest"
       /\ a[2].qop = "" \/ a[2].cnonce \in CNonces
       /\ ResolvedFor(c, a[2].cnonce) = [tag |-> "Ok", error |-> "", value |-> a[2]]

\* C3 as stated: after a 401 with a syntactically valid Digest challenge exactly
\* two transmissions occur and the second carries the resolver's value.
C3_ValidChallengeRetried ==
  \A c \in Calls : ValidlyChallenged(c) => CarriesResolved(c)

\* C3, amended: after a 401 with a syntactically valid Digest challenge from
\* which the digest library can produce a credential, exactly two transmissions
\* occur and the second carries the value the resolver computes from that
\* challenge, the request's method, path and body and the given username and
\* password; when it cannot, one transmission occurs and an error is returned.
C3_ResolvableChallengeRetried ==
  \A c \in Calls :
    ValidlyChallenged(c)
      => IF \E cnonce \in CNonces : ResolvedFor(c, cnonce).tag = "Ok"
         THEN CarriesResolved(c)
         ELSE /\ Len(transmissions[c]) = 1
              /\ result[c] = Err(DigestAuthError)

C3_Witness ==
  \E c \in Calls :
    /\ ValidlyChallenged(c)
    /\ CarriesResolved(c)
    /\ request_builder.method = "POST"
    /\ request_builder.url.query # ""
    /\ Done(c)
    /\ result[c].tag = "Ok"
    /\ result[c].response.status = 200

\* C4: a call never performs more than two transmissions, whatever the server
\* answers and whichever step fails.
C4_AtMostTwoTransmissions ==
  \A c \in Calls : Len(transmissions[c]) <= 2 /\ Len(received[c]) <= 2

C4_Witness ==
  \E c \in Calls :
    /\ Done(c)
    /\ Len(transmissions[c]) = 2
    /\ Answered(c, 2)
    /\ ResponseTo(c, 2).status = UNAUTHORIZED
    /\ ResponseTo(c, 2).www_authenticate = <<DigestValue>>

\* C5: once a credential was produced and the second transmission completed
\* with a response, the call has returned that second response, whatever its
\* status, and no further transmission or resolution has happened.
C5_SecondResponseIsFinal ==
  \A c \in Calls :
    Answered(c, 2)
      => /\ Done(c)
         /\ answer[c].some
         /\ result[c] = Ok(ResponseTo(c, 2))
         /\ Len(transmissions[c]) = 2
         /\ duplications[c] = 3

C5_Witness ==
  \E c \in Calls :
    /\ Answered(c, 2)
    /\ ResponseTo(c, 2).status = UNAUTHORIZED
    /\ ResponseTo(c, 2).www_authenticate # <<>>
    /\ ValidDigest(Head(ResponseTo(c, 2).www_authenticate))
    /\ result[c] = Ok(ResponseTo(c, 2))

\* the request builder cannot be duplicated: it holds a stream body or no
\* request at all
NotDuplicable == request_builder.body.kind = "stream" \/ ~request_builder.valid

\* C6: when the request builder cannot be duplicated, the call returns the
\* RequestBuilderNotCloneable error and nothing has been transmitted.
C6_NotDuplicableBeforeTransmission ==
  \A c \in Calls :
    (NotDuplicable /\ pc[c] \notin {"idle", "start"})
      => /\ Done(c)
         /\ result[c] = Err(RequestBuilderNotCloneable)
         /\ transmissions[c] = <<>>
         /\ received[c] = <<>>

C6_Witness ==
  \E c \in Calls :
    /\ request_builder.body.kind = "stream"
    /\ Done(c)
    /\ result[c] = Err(RequestBuilderNotCloneable)
    /\ transmissions[c] = <<>>

\* the first response of call c is a 401 whose first www-authenticate value is
\* not text or is not a well-formed Digest challenge
BadlyChallenged(c) ==
  /\ Challenged(c)
  /\ ResponseTo(c, 1).www_authenticate # <<>>
  /\ ~ValidDigest(Head(ResponseTo(c, 1).www_authenticate))

\* C7: after a 401 whose www-authenticate header is present but not text or not
\* a well-formed Digest challenge, the call returns an error, not the first
\* response, and exactly one transmission has occurred.
C7_UnusableHeaderIsError ==
  \A c \in Calls :
    BadlyChallenged(c)
      => /\ Done(c)
         /\ result[c].tag = "Err"
         /\ result[c].error
              = (IF Head(ResponseTo(c, 1).www_authenticate).text
                 THEN DigestAuthError ELSE ToStrError)
         /\ Len(transmissions[c]) = 1

C7_Witness ==
  \E c \in Calls :
    /\ BadlyChallenged(c)
    /\ Head(ResponseTo(c, 1).www_authenticate) = BinaryValue
    /\ result[c] = Err(ToStrError)
    /\ Len(transmissions[c]) = 1

\* C8 as stated: after a 401 whose www-authenticate header is missing or not
\* parsable into a Digest challenge, the call returns the first response and
\* no second transmission occurs.
C8_MissingOrUnparsablePassThrough ==
  \A c \in Calls :
    (Challenged(c) /\ (ResponseTo(c, 1).www_authenticate = <<>> \/ BadlyChallenged(c)))
      => /\ result[c] = Ok(ResponseTo(c, 1))
         /\ Len(transmissions[c]) = 1

\* C8, amended: after a 401 the call returns the first response verbatim
\* exactly when the www-authenticate header is missing; a header that is
\* present but unparsable gives an error instead.  In both cases no second
\* transmission occurs.
C8_OnlyMissingPassesThrough ==
  \A c \in Calls :
    (Challenged(c) /\ Done(c))
      => /\ (result[c] = Ok(first_response[c]))
              <=> (ResponseTo(c, 1).www_authenticate = <<>>)
         /\ first_response[c] = ResponseTo(c, 1)
         /\ (ResponseTo(c, 1).www_authenticate = <<>> \/ BadlyChallenged(c))
              => Len(transmissions[c]) = 1

C8_Witness ==
  \E c \in Calls :
    /\ BadlyChallenged(c)
    /\ Done(c)
    /\ Head(ResponseTo(c, 1).www_authenticate) = NoNonceValue
    /\ result[c].tag = "Err"
    /\ Len(transmissions[c]) = 1

\* C9: a transport failure is returned as an error and never retried: after a
\* failed first transmission no further transmission occurs; after a failed
\* second transmission the call returns the error, not the first response,
\* and no third transmission occurs.
C9_TransportFailureNotRetried ==
  \A c \in Calls :
    /\ Failed(c, 1)
         => /\ Done(c)
            /\ result[c] = Err(ReqwestError)
            /\ Len(transmissions[c]) = 1
            /\ Len(received[c]) = 1
    /\ Failed(c, 2)
         => /\ Done(c)
            /\ result[c] = Err(ReqwestError)
            /\ Len(transmissions[c]) = 2
            /\ Len(received[c]) = 2

C9_Witness ==
  \E c \in Calls :
    /\ Answered(c, 1)
    /\ Failed(c, 2)
    /\ Done(c)
    /\ result[c] = Err(ReqwestError)

\* C10: the uri handed to the digest computation is exactly the path and query
\* of the request URL: no scheme, authority or fragment is part of it, and URLs
\* that differ only in scheme, host or port give the same value.
C10_UriIsPathAndQuery ==
  \A c \in Calls :
    context[c] # NoContext
      => /\ context[c].uri = PathAndQuery(request_builder.url)
         /\ \A u \in Urls :
              PathAndQuery(u) = PathAndQuery(request_builder.url)
                => SliceFromAfterPort(u) = context[c].uri

\* C11: no step of any call changes the caller's request builder (method, URL,
\* body, headers), on success and on error paths alike, and the builder never
\* carries the Authorization header: that is attached to a duplicate only.
C11_OriginalRequestUnchanged ==
  [][/\ request_builder' = request_builder
     /\ Authorization(request_builder') = {}]_vars

C11_Witness ==
  \E c \in Calls :
    /\ Done(c)
    /\ Len(transmissions[c]) = 2
    /\ Authorization(transmissions[c][2]) # {}
    /\ request_builder.headers = AcceptHeaders
    /\ Authorization(request_builder) = {}

\* C12: the request is duplicated once before the first transmission, a second
\* time only after a 401 first response and a third time only after a
\* credential was produced: a call that is not answered by 401 makes exactly 1
\* duplication, a 401 call without usable credential exactly 2, a retried call
\* exactly 3.
C12_DuplicationsPerPath ==
  \A c \in Calls :
    /\ pc[c] \in {"idle", "start"} => duplications[c] = 0
    /\ pc[c] = "first_send" => duplications[c] = 1
    /\ (Done(c) /\ ~Challenged(c)) => duplications[c] = 1
    /\ (Done(c) /\ Challenged(c) /\ ~answer[c].some) => duplications[c] = 2
    /\ (Challenged(c) /\ answer[c].some) => duplications[c] = 3
    /\ Len(transmissions[c]) = 2 => duplications[c] = 3
    /\ duplications[c] = 3 => (Challenged(c) /\ answer[c].some)
    /\ duplications[c] >= 2 => Challenged(c)

C12_Witness ==
  \E c \in Calls :
    /\ Done(c)
    /\ Challenged(c)
    /\ BadlyChallenged(c)
    /\ duplications[c] = 2
    /\ Len(transmissions[c]) = 1

\* C16: the second transmission carries the method, URL, body and headers of
\* the first one plus exactly one added Authorization header, the one made from
\* the credential; the first transmission is the caller's request and carries
\* no computed Authorization header.
C16_SecondTransmissionIsFirstPlusAuthorization ==
  \A c \in Calls :
    /\ Len(transmissions[c]) >= 1
         => /\ transmissions[c][1] = SentRequest(request_builder)
            /\ Authorization(transmissions[c][1]) = {}
    /\ Len(transmissions[c]) = 2
         => /\ transmissions[c][2].method = transmissions[c][1].method
            /\ transmissions[c][2].url = transmissions[c][1].url
            /\ transmissions[c][2].body = transmissions[c][1].body
            /\ answer[c].some
            /\ transmissions[c][2].headers
                 = Append(transmissions[c][1].headers,
                          <<"authorization", <<"Digest", answer[c].value>> >>)

C16_Witness ==
  \E c \in Calls :
    /\ Len(transmissions[c]) = 2
    /\ transmissions[c][1].headers = AcceptHeaders
    /\ Len(transmissions[c][2].headers) = 2
    /\ transmissions[c][2].headers[1] = AcceptHeaders[1]
    /\ transmissions[c][2].headers[2][1] = "authorization"

\* the digest library parses the first www-authenticate value of the first
\* response of call c but produces no credential for the request
RespondFails(c) ==
  /\ ValidlyChallenged(c)
  /\ \A cnonce \in CNonces : ResolvedFor(c, cnonce).tag = "Err"

\* C17: when producing the credential fails after a successful parse, the call
\* returns that error and no second transmission occurs; a second transmission
\* occurs only after a credential was produced.
C17_CredentialFailureIsReturned ==
  \A c \in Calls :
    /\ RespondFails(c)
         => /\ Done(c)
            /\ result[c] = Err(DigestAuthError)
            /\ ~answer[c].some
            /\ Len(transmissions[c]) = 1
    /\ (Done(c) /\ result[c].tag = "Err" /\ Len(received[c]) = 1 /\ Answered(c, 1))
         => Len(transmissions[c]) = 1
    /\ Len(transmissions[c]) = 2 => (Challenged(c) /\ answer[c].some)

C17_Witness ==
  \E c \in Calls :
    /\ RespondFails(c)
    /\ Head(ResponseTo(c, 1).www_authenticate) = AuthIntValue
    /\ request_builder.body = NoBody
    /\ Done(c)
    /\ result[c] = Err(DigestAuthError)

\* C19: when the first response carries several www-authenticate values, only
\* the first one is used: an unusable first value is an error even when a later
\* value is a Digest challenge, and a credential is always the one computed
\* from the first value.
C19_OnlyFirstHeaderValueUsed ==
  \A c \in Calls :
    (Challenged(c) /\ Len(ResponseTo(c, 1).www_authenticate) >= 2)
      => /\ BadlyChallenged(c)
              => /\ Done(c)
                 /\ result[c].tag = "Err"
                 /\ ~answer[c].some
                 /\ Len(transmissions[c]) = 1
         /\ answer[c].some
              => /\ answer[c].value.realm = Head(ResponseTo(c, 1).www_authenticate).realm
                 /\ answer[c].value.nonce = Head(ResponseTo(c, 1).www_authenticate).nonce
                 /\ ResolvedFor(c, answer[c].value.cnonce)
                      = [tag |-> "Ok", error |-> "", value |-> answer[c].value]

C19_Witness ==
  \E c \in Calls :
    /\ Challenged(c)
    /\ ResponseTo(c, 1).www_authenticate = <<BasicValue, DigestValue>>
    /\ Done(c)
    /\ result[c] = Err(DigestAuthError)
    /\ Len(transmissions[c]) = 1

\* call c has left send_with_digest_auth's first refresh behind
Started(c) == pc[c] \notin {"idle", "start"}

\* calls c and d were given the same credentials, got the same server answers
\* so far and, where both drew a client nonce, drew the same one
SameRun(c, d) ==
  /\ credentials[c] = credentials[d]
  /\ received[c] = received[d]
  /\ (answer[c].some /\ answer[d].some)
       => answer[c].value.cnonce = answer[d].value.cnonce

\* C13: the async and the blocking negotiator have the same control flow: for
\* the same request, credentials and server answers they make the same
\* duplications and transmissions, stand at the same point and return the same
\* result.
C13_BlockingMatchesAsync ==
  \A c, d \in Calls :
    (/\ flavor[c] = "async"
     /\ flavor[d] = "blocking"
     /\ Started(c)
     /\ Started(d)
     /\ SameRun(c, d))
      => /\ pc[c] = pc[d]
         /\ duplications[c] = duplications[d]
         /\ transmissions[c] = transmissions[d]
         /\ answer[c] = answer[d]
         /\ result[c] = result[d]

C13_Witness ==
  \E c, d \in Calls :
    /\ flavor[c] = "async"
    /\ flavor[d] = "blocking"
    /\ SameRun(c, d)
    /\ Done(c)
    /\ Done(d)
    /\ Len(transmissions[c]) = 2
    /\ transmissions[c] = transmissions[d]
    /\ result[c].tag = "Ok"
    /\ result[c] = result[d]

\* the result call c returns when it runs alone and the transport answers its
\* sends as it answered them here
ResultAlone(c) ==
  IF NotDuplicable THEN Err(RequestBuilderNotCloneable)
  ELSE IF Failed(c, 1) THEN Err(ReqwestError)
  ELSE IF ~Challenged(c) THEN Ok(ResponseTo(c, 1))
  ELSE IF ResponseTo(c, 1).www_authenticate = <<>> THEN Ok(ResponseTo(c, 1))
  ELSE IF ~Head(ResponseTo(c, 1).www_authenticate).text THEN Err(ToStrError)
  ELSE IF BadlyChallenged(c) \/ RespondFails(c) THEN Err(DigestAuthError)
  ELSE IF Failed(c, 2) THEN Err(ReqwestError)
  ELSE Ok(ResponseTo(c, 2))

\* C14: of two calls on the same request builder, interleaved at their sends,
\* each returns the result it returns when running alone, each puts on its
\* second transmission only the credential computed from its own first
\* response and its own username and password, and the builder stays as the
\* caller made it.
C14_ConcurrentCallsIndependent ==
  \A c \in Calls :
    /\ Done(c) => result[c] = ResultAlone(c)
    /\ Len(transmissions[c]) >= 1 => transmissions[c][1] = SentRequest(request_builder)
    /\ Len(transmissions[c]) = 2 => CarriesResolved(c)
    /\ Authorization(request_builder) = {}

C14_Witness ==
  /\ pc["call1"] = "second_send"
  /\ pc["call2"] = "second_send"
  /\ credentials["call1"] # credentials["call2"]
  /\ ResponseTo("call1", 1).www_authenticate = <<DigestValue>>
  /\ ResponseTo("call2", 1).www_authenticate = <<AuthIntValue>>
  /\ CarriesResolved("call1")
  /\ CarriesResolved("call2")
  /\ transmissions["call1"][2] # transmissions["call2"][2]

\* an Authorization value without its client nonce
WithoutCnonce(a) ==
  [a EXCEPT !.cnonce = "", !.response = [a.response EXCEPT !.cnonce = ""]]

C18_EveryCallTerminates ==
  /\ \A c \in Calls :
       (pc[c] = "start")
         ~> (/\ Done(c)
             /\ result[c].tag \in {"Ok", "Err"}
             /\ Len(transmissions[c]) <= 2)
  /\ [][\A c \in Calls :
          Done(c) => (pc'[c] = pc[c] /\ result'[c] = result[c]
                      /\ transmissions'[c] = transmissions[c])]_vars

C18_Witness ==
  \E c \in Calls :
    /\ Done(c)
    /\ Len(transmissions[c]) = 2
    /\ Len(received[c]) = 2
    /\ result[c].tag = "Ok"
    /\ result[c].response.status = UNAUTHORIZED

====
